---- MODULE Spec2Model ----
(***************************************************************************)
(* Model of modules.py: ReferenceEncoder, STL, MultiHeadAttention and GST.  *)
(*                                                                         *)
(* A tensor is modelled by what the claims are about: its shape (a         *)
(* sequence of axis sizes), for every batch row the set of input rows its  *)
(* values are computed from (dep), and the statistics each normalization   *)
(* stage normalised it with (stats).  A call that raises is a tensor whose *)
(* st names the exception.                                                 *)
(***************************************************************************)
EXTENDS Integers, Sequences, FiniteSets

VARIABLES hparams, model, training, last

vars == <<hparams, model, training, last>>

(* ----------------------------- bounds ---------------------------------- *)
MaxK == 2
MaxMel == 2
MaxGru == 2
MaxEmb == 3
MaxHeads == 2
MaxN == 2
MaxT == 2
MaxTracked == 1

(* ----------------------- constants of the source ----------------------- *)
KernelSize == 3
Stride == 2
Padding == 1
Dilation == 1

(* ------------------------------ helpers -------------------------------- *)
RECURSIVE Pow2(_)
Pow2(k) == IF k = 0 THEN 1 ELSE 2 * Pow2(k - 1)

Tensor(shape, dep, stats) == [st |-> "ok", shape |-> shape, dep |-> dep, stats |-> stats]

Raise(kind) == [st |-> kind, shape |-> <<>>, dep |-> <<>>, stats |-> <<>>]

\* Tensor.squeeze(d): axis d (0-based) is removed when its size is 1
Squeeze(shape, d) ==
    IF d + 1 <= Len(shape) /\ shape[d + 1] = 1
    THEN [i \in 1..(Len(shape) - 1) |-> IF i <= d THEN shape[i] ELSE shape[i + 1]]
    ELSE shape

\* Tensor.unsqueeze(d): a size-1 axis is inserted at position d (0-based)
Unsqueeze(shape, d) ==
    [i \in 1..(Len(shape) + 1) |->
        IF i <= d THEN shape[i] ELSE IF i = d + 1 THEN 1 ELSE shape[i - 1]]

ConvOutNoPadding(L) == (L - Dilation * (KernelSize - 1) - 1) \div Stride + 1

\* output size of one axis of nn.Conv2d
ConvOut(L) == (L + 2 * Padding - Dilation * (KernelSize - 1) - 1) \div Stride + 1

(* --------------------------- construction ------------------------------ *)
RECURSIVE calculate_channels_halving(_, _, _, _, _)
calculate_channels_halving(L, kernel_size, stride, pad, n_convs) ==
    IF n_convs = 0 THEN L
    ELSE calculate_channels_halving(L \div stride, kernel_size, stride, pad, n_convs - 1)

RECURSIVE calculate_channels(_, _, _, _, _)
calculate_channels(L, kernel_size, stride, pad, n_convs) ==
    IF n_convs = 0 THEN L
    ELSE calculate_channels((L - kernel_size + 2 * pad) \div stride + 1,
                            kernel_size, stride, pad, n_convs - 1)

ReferenceEncoderInit(hp) ==
    LET K == Len(hp.ref_enc_filters)
        filters == <<1>> \o hp.ref_enc_filters
        out_channels == calculate_channels(hp.n_mel_channels, KernelSize, Stride, Padding, K)
    IN  [convs |-> [i \in 1..K |-> [in_channels |-> filters[i],
                                    out_channels |-> filters[i + 1],
                                    weight |-> "init"]],
         bns |-> [i \in 1..K |-> [num_features |-> hp.ref_enc_filters[i],
                                  weight |-> "init",
                                  num_batches_tracked |-> 0,
                                  running |-> 0]],
         gru |-> [input_size |-> hp.ref_enc_filters[K] * out_channels,
                  hidden_size |-> hp.ref_enc_gru_size,
                  weight |-> "init"],
         n_mel_channels |-> hp.n_mel_channels,
         ref_enc_gru_size |-> hp.ref_enc_gru_size]

MultiHeadAttentionInit(query_dim, key_dim, num_units, num_heads) ==
    [num_units |-> num_units,
     num_heads |-> num_heads,
     key_dim |-> key_dim,
     W_query |-> [in_features |-> query_dim, out_features |-> num_units, weight |-> "init"],
     W_key |-> [in_features |-> key_dim, out_features |-> num_units, weight |-> "init"],
     W_value |-> [in_features |-> key_dim, out_features |-> num_units, weight |-> "init"]]

STLInitKeyDimFull(hp) ==
    LET d_q == hp.ref_enc_gru_size
        d_k == hp.token_embedding_size
    IN  [embed |-> [shape |-> <<hp.token_num, hp.token_embedding_size \div hp.num_heads>>,
                    weight |-> "init"],
         attention |-> MultiHeadAttentionInit(d_q, d_k, hp.token_embedding_size, hp.num_heads)]

STLInit(hp) ==
    LET d_q == hp.ref_enc_gru_size
        d_k == hp.token_embedding_size \div hp.num_heads
    IN  [embed |-> [shape |-> <<hp.token_num, hp.token_embedding_size \div hp.num_heads>>,
                    weight |-> "init"],
         attention |-> MultiHeadAttentionInit(d_q, d_k, hp.token_embedding_size, hp.num_heads)]

GSTInit(hp) == [built |-> TRUE, encoder |-> ReferenceEncoderInit(hp), stl |-> STLInit(hp)]

NoModel == [built |-> FALSE]

(* ------------------------ ReferenceEncoder.forward --------------------- *)
\* inputs.view(inputs.size(0), 1, -1, self.n_mel_channels)
ViewAsImage(enc, inp) ==
    IF (inp.T * inp.mel) % enc.n_mel_channels # 0
    THEN Raise("RuntimeError")
    ELSE Tensor(<<inp.N, 1, (inp.T * inp.mel) \div enc.n_mel_channels, enc.n_mel_channels>>,
                [n \in 1..inp.N |-> {n}], <<>>)

\* conv(out): every row is convolved on its own; both image axes shrink
Conv2d(conv, t) ==
    IF t.shape[2] # conv.in_channels
    THEN Raise("RuntimeError")
    ELSE [t EXCEPT !.shape = <<t.shape[1], conv.out_channels,
                               ConvOut(t.shape[3]), ConvOut(t.shape[4])>>]

\* the buffers of one nn.BatchNorm2d after bn(out): in training mode the batch
\* counter is advanced first, then the batch size is verified, then the running
\* mean and variance are folded with the batch statistics
BatchNormBuffersAlways(bn, t, train) ==
    [bn EXCEPT !.num_batches_tracked = @ + 1,
               !.running = IF t.shape[1] * t.shape[3] * t.shape[4] = 1 /\ train
                           THEN @ ELSE @ + 1]

BatchNormBuffers(bn, t, train) ==
    IF train
    THEN [bn EXCEPT !.num_batches_tracked = @ + 1,
                    !.running = IF t.shape[1] * t.shape[3] * t.shape[4] = 1
                                THEN @ ELSE @ + 1]
    ELSE bn

\* the value of bn(out): batch statistics over (N, H, W) in training mode, the
\* running statistics in evaluation mode
BatchNormBatchStats(bn, t, train) ==
    IF t.shape[1] * t.shape[3] * t.shape[4] = 1 /\ train
    THEN Raise("ValueError")
    ELSE [t EXCEPT !.dep = [n \in DOMAIN t.dep |-> UNION {t.dep[m] : m \in DOMAIN t.dep}],
                   !.stats = Append(@, "batch")]

BatchNorm(bn, t, train) ==
    IF train
    THEN IF t.shape[1] * t.shape[3] * t.shape[4] = 1
         THEN Raise("ValueError")
         ELSE [t EXCEPT !.dep = [n \in DOMAIN t.dep |-> UNION {t.dep[m] : m \in DOMAIN t.dep}],
                        !.stats = Append(@, "batch")]
    ELSE [t EXCEPT !.stats = Append(@, bn.running)]

\* for conv, bn in zip(self.convs, self.bns): conv, bn, relu
RECURSIVE ConvStages(_, _, _, _)
ConvStages(enc, i, t, train) ==
    IF i > Len(enc.convs) \/ t.st # "ok"
    THEN [out |-> t, bns |-> enc.bns]
    ELSE LET c == Conv2d(enc.convs[i], t)
         IN  IF c.st # "ok"
             THEN [out |-> c, bns |-> enc.bns]
             ELSE ConvStages([enc EXCEPT !.bns[i] = BatchNormBuffers(@, c, train)],
                             i + 1, BatchNorm(enc.bns[i], c, train), train)

\* out.transpose(1,2) and out.contiguous().view(N, T, -1)
ToSequence(t) ==
    [t EXCEPT !.shape = <<t.shape[1], t.shape[3], t.shape[2] * t.shape[4]>>]

\* len(self): ReferenceEncoder defines __init__, forward and calculate_channels only
HasLen == FALSE

GRUAllOutputs(gru, t) ==
    IF t.shape[3] # gru.input_size
    THEN Raise("RuntimeError")
    ELSE [t EXCEPT !.shape = <<t.shape[1], t.shape[2], gru.hidden_size>>]

\* self.gru(out) returns (output, h_n); h_n is [1, N, hidden_size]
GRUFinalHidden(gru, t) ==
    IF t.shape[3] # gru.input_size
    THEN Raise("RuntimeError")
    ELSE [t EXCEPT !.shape = <<1, t.shape[1], gru.hidden_size>>]

ReferenceEncoderForward(enc, inp, train) ==
    LET img == ViewAsImage(enc, inp)
        cs == ConvStages(enc, 1, img, train)
        seq == IF cs.out.st = "ok" THEN ToSequence(cs.out) ELSE cs.out
        packed == IF seq.st = "ok" /\ inp.lengths.given /\ ~HasLen
                  THEN Raise("TypeError") ELSE seq
        h == IF packed.st = "ok" THEN GRUFinalHidden(enc.gru, packed) ELSE packed
    IN  [out |-> IF h.st = "ok" THEN [h EXCEPT !.shape = Squeeze(@, 0)] ELSE h,
         seq |-> seq,
         bns |-> cs.bns]

(* ----------------------- MultiHeadAttention.forward -------------------- *)
\* nn.Linear on the last axis
Linear(lin, t) ==
    IF t.shape[Len(t.shape)] # lin.in_features
    THEN Raise("RuntimeError")
    ELSE [t EXCEPT !.shape[Len(t.shape)] = lin.out_features]

\* torch.stack(torch.split(x, split_size, dim=2), dim=0): the chunks must be
\* of one size to be stacked; the result is [chunks, N, T, split_size]
SplitStack(t, split_size) ==
    IF split_size = 0 \/ t.shape[3] % split_size # 0
    THEN Raise("RuntimeError")
    ELSE [t EXCEPT !.shape = <<t.shape[3] \div split_size, t.shape[1], t.shape[2], split_size>>]

MultiHeadAttentionForward(att, query, key) ==
    LET querys == Linear(att.W_query, query)
        keys == Linear(att.W_key, key)
        values == Linear(att.W_value, key)
        split_size == att.num_units \div att.num_heads
        qs == IF querys.st = "ok" THEN SplitStack(querys, split_size) ELSE querys
        ks == IF keys.st = "ok" THEN SplitStack(keys, split_size) ELSE keys
        vs == IF values.st = "ok" THEN SplitStack(values, split_size) ELSE values
    IN  IF qs.st # "ok" THEN qs
        ELSE IF ks.st # "ok" THEN ks
        ELSE IF vs.st # "ok" THEN vs
        ELSE \* scores [h, N, T_q, T_k]; out [h, N, T_q, split]; cat on dim 3; squeeze(0)
             [qs EXCEPT !.shape = Squeeze(<<1, qs.shape[2], qs.shape[3],
                                            qs.shape[1] * vs.shape[4]>>, 0)]

(* ------------------------------ STL.forward ---------------------------- *)
STLForward(stl, inputs) ==
    LET N == inputs.shape[1]
        query == [inputs EXCEPT !.shape = Unsqueeze(@, 1)]
        keys == Tensor(<<N, stl.embed.shape[1], stl.embed.shape[2]>>,
                       [n \in 1..N |-> {}], <<>>)
    IN  MultiHeadAttentionForward(stl.attention, query, keys)

(* ------------------------------ GST.forward ---------------------------- *)
GSTForward(m, inp, train) ==
    LET enc == ReferenceEncoderForward(m.encoder, inp, train)
    IN  [enc_out |-> enc.out,
         seq |-> enc.seq,
         style_embed |-> IF enc.out.st = "ok" THEN STLForward(m.stl, enc.out) ELSE enc.out,
         model |-> [m EXCEPT !.encoder.bns = enc.bns]]

(* ------------------------------ the machine ---------------------------- *)
\* a channel schedule of k stages: 2, 3, ... channels
FilterSchedule(k) == [i \in 1..k |-> i + 1]

\* configurations that vary the encoder's options
EncoderConfigs ==
    {[ref_enc_filters |-> FilterSchedule(k), n_mel_channels |-> m, ref_enc_gru_size |-> g,
      token_num |-> 2, token_embedding_size |-> 2, num_heads |-> 1] :
        k \in 1..MaxK, m \in 1..MaxMel, g \in 1..MaxGru}

\* configurations that vary the style-token layer's options
AttentionConfigs ==
    {[ref_enc_filters |-> FilterSchedule(1), n_mel_channels |-> 2, ref_enc_gru_size |-> 2,
      token_num |-> 2, token_embedding_size |-> e, num_heads |-> h] :
        e \in 1..MaxEmb, h \in 1..MaxHeads}

HParams == EncoderConfigs \cup AttentionConfigs

NoLengths == [given |-> FALSE, v |-> <<>>]

\* a batch [N, T, mel], without lengths or with a vector of lengths in 1..T
Inputs ==
    UNION {UNION {{[N |-> n, T |-> t, mel |-> f, lengths |-> l] :
                     l \in {NoLengths} \cup {[given |-> TRUE, v |-> v] : v \in [1..n -> {1, t}]}}
                  : f \in 1..MaxMel} : <<n, t>> \in (1..MaxN) \X (1..MaxT)}

NoCall == [called |-> FALSE]

Init ==
    /\ hparams \in HParams
    /\ model = NoModel
    /\ training = TRUE
    /\ last = NoCall

\* GST(hparams)
Construct ==
    /\ ~model.built
    /\ model' = GSTInit(hparams)
    /\ training' = TRUE
    /\ UNCHANGED <<hparams, last>>

\* nn.Module.eval()
Eval ==
    /\ model.built
    /\ training
    /\ training' = FALSE
    /\ UNCHANGED <<hparams, model, last>>

\* nn.Module.train()
Train ==
    /\ model.built
    /\ ~training
    /\ training' = TRUE
    /\ UNCHANGED <<hparams, model, last>>

\* model(inputs, input_lengths)
Forward ==
    /\ model.built
    /\ training => \A i \in DOMAIN model.encoder.bns :
                       model.encoder.bns[i].num_batches_tracked < MaxTracked
    /\ \E inp \in Inputs :
          \E r \in {GSTForward(model, inp, training)} :
              /\ model' = r.model
              /\ last' = [called |-> TRUE, input |-> inp, training |-> training,
                          before |-> model, enc_out |-> r.enc_out, seq |-> r.seq,
                          style_embed |-> r.style_embed]
    /\ UNCHANGED <<hparams, training>>

Next == Construct \/ Eval \/ Train \/ Forward

Spec == Init /\ [][Next]_vars

(* ------------------------------ the claims ----------------------------- *)
\* number of convolution stages of the configuration
K == Len(hparams.ref_enc_filters)

\* the latest call was given a spectrogram of the constructed mel width
MelMatches == last.called /\ last.input.mel = hparams.n_mel_channels

\* the smallest m with m * d >= a
CeilDiv(a, d) == (a + d - 1) \div d

\* the learned values of a model: everything but the normalization buffers
Learned(m) ==
    [m EXCEPT !.encoder.bns =
        [i \in DOMAIN @ |-> [@[i] EXCEPT !.num_batches_tracked = 0, !.running = 0]]]

\* C1 (as stated): whenever a forward call returns, the style embedding has
\* exactly the two axes [N, token_embedding_size].
C1_TwoAxes ==
    (last.called /\ last.style_embed.st = "ok")
        => last.style_embed.shape = <<last.input.N, hparams.token_embedding_size>>

\* C2 (as stated): a model object exists only for configurations whose
\* token_embedding_size is divisible by num_heads.
C2_IndivisibleRejected ==
    model.built => hparams.token_embedding_size % hparams.num_heads = 0

\* C3 (as stated, for batches of more than one example): an encode call with
\* lengths in 1..T completes and returns one vector of ref_enc_gru_size values
\* per example.
C3_LengthsAccepted ==
    (MelMatches /\ last.input.lengths.given /\ last.input.N > 1)
        => /\ last.enc_out.st = "ok"
           /\ last.enc_out.shape = <<last.input.N, hparams.ref_enc_gru_size>>

\* C4 (as stated): an encode call whose spectrogram has another mel width than
\* the constructed one never returns an output.
C4_MelMismatchRejected ==
    (last.called /\ last.input.mel # hparams.n_mel_channels) => last.enc_out.st # "ok"

C6_RowsIndependent ==
    (last.called /\ last.style_embed.st = "ok")
        => \A n \in 1..last.input.N : last.style_embed.dep[n] = {n}

\* C6 (amended): in evaluation mode row n of the style embedding is computed from
\* row n of the input alone; in training mode, the mode of a freshly constructed
\* model, the normalization over the batch makes it a function of every row.
C6_RowsIndependentInEval ==
    (last.called /\ last.style_embed.st = "ok")
        => \A n \in 1..last.input.N :
              last.style_embed.dep[n] = IF last.training THEN 1..last.input.N ELSE {n}

C6_Witness ==
    /\ last.called
    /\ last.style_embed.st = "ok"
    /\ ~last.training
    /\ last.input.N > 1
    /\ last.before.encoder.bns[1].running > 0

\* C7 (as stated): a forward call leaves every persistent value of the model as
\* it was before the call.
C7_ForwardPure == last.called => model = last.before

\* C7 (amended): a forward call leaves every learned value as it was; in evaluation
\* mode it leaves the normalization buffers as they were too, while in training mode
\* it advances them; repeating the call in the same mode yields the same result.
C7_ForwardKeepsLearned ==
    last.called
        => /\ Learned(model) = Learned(last.before)
           /\ ~last.training => model = last.before
           /\ GSTForward(model, last.input, last.training).style_embed = last.style_embed

C7_Witness ==
    /\ last.called
    /\ ~last.training
    /\ last.style_embed.st = "ok"
    /\ model.encoder.bns[1].num_batches_tracked > 0

C10_KeyDimIsChunkWidth ==
    model.built
        => model.stl.attention.key_dim
              = model.stl.attention.num_units \div model.stl.attention.num_heads

C10_Witness ==
    /\ model.built
    /\ hparams.token_embedding_size % hparams.num_heads # 0
    /\ last.called
    /\ last.style_embed.st = "ok"
====
